---- MODULE Spec2Model ----
(***************************************************************************)
(* Monte Carlo estimation of pi (src/monte_carlo_pi.py).                   *)
(*                                                                         *)
(* Two specifications over one set of variables:                           *)
(*   Spec     the script: main, convergence_study and                      *)
(*            sampling_distribution_study, with every program constant at   *)
(*            its real value.  An estimate is represented by the block of   *)
(*            generator output that determines it (stream key, position,    *)
(*            n): millions of draws per call cannot be enumerated.          *)
(*   SpecEst  estimate_pi itself, draw by draw, on small n and a grid of    *)
(*            draw values, called from arbitrary generator states.          *)
(* FairSpec is Spec with weak fairness: a sequential script keeps running.  *)
(***************************************************************************)
EXTENDS Integers, Sequences, FiniteSets, TLC

VARIABLES
    gen,            \* np.random's process-wide generator: [key, pos]
    tape,           \* generator output revealed so far: <<key, pos>> -> draw
    log,            \* estimate_pi calls made on their own (SpecEst)
    justSeeded,     \* the generator was seeded and not used since (SpecEst)
    pc,             \* position of the script
    entry,          \* the function the run entered through
    demo,           \* main, Part 1: the estimates printed
    n_values,       \* convergence_study: n_values
    conv_i,         \* convergence_study: sample sizes the for loop has taken
    pi_estimates,   \* convergence_study: pi_estimates
    printed,        \* convergence_study: milestone lines printed (their n)
    samp_i,         \* sampling_distribution_study: sample sizes started
    trial_i,        \* sampling_distribution_study: range(R) values taken
    trials,         \* sampling_distribution_study: pi_estimates of this n
    stats,          \* sampling_distribution_study: statistics computed
    saved,          \* image files written by plt.savefig, in order
    summary         \* main printed its final summary

vars == <<gen, tape, log, justSeeded, pc, entry, demo, n_values, conv_i,
          pi_estimates, printed, samp_i, trial_i, trials, stats, saved, summary>>

estVars == <<gen, tape, log, justSeeded>>
progVars == <<pc, entry, demo, n_values, conv_i, pi_estimates, printed,
              samp_i, trial_i, trials, stats, saved, summary>>

----------------------------------------------------------------------------
(* Bounds of the model *)

\* estimate_pi is called on its own with n in 0..MaxN
MaxN == 2
\* the generator starts from one of MaxEntropy + 1 entropy-seeded states
MaxEntropy == 1

(* Program constants *)

MainSeed == 42
ConvSeed == 42
StudySeed == 123
R == 500
LogStart == 2
LogStop == 6
NumPoints == 50
DemoSizes == <<100, 1000, 10000, 100000>>
Milestones == {100, 1000, 10000, 100000, 1000000}
SampSizes == <<1000, 10000, 100000>>

----------------------------------------------------------------------------
(* The generator.  numpy is not part of the repository: the generator is    *)
(* modelled by its contract.  Seeding with s selects stream s at position   *)
(* 0; every draw of a double advances the position by one; the value at a   *)
(* position of a stream never changes (tape).                               *)

\* streams np.random can start in before any seed call (OS entropy)
EntropyKeys == {0 - (e + 1) : e \in 0..MaxEntropy}

\* draw values: k / GridDen for k in Grid, all in [0, 1)
GridDen == 4
Grid == {0, GridDen - 1}

SeedKeepsPosition(g, s) == [key |-> s, pos |-> g.pos]

\* np.random.seed(s)
Seed(g, s) == [key |-> s, pos |-> 0]

\* generator after np.random.uniform(0, 1, n)
UniformGen(g, n) == [g EXCEPT !.pos = @ + n]

\* the positions np.random.uniform(0, 1, n) reads
UniformPositions(g, n) == {<<g.key, g.pos + k>> : k \in 0..(n - 1)}

\* the array np.random.uniform(0, 1, n) returns
Uniform(tp, g, n) == [k \in 1..n |-> tp[<<g.key, g.pos + k - 1>>]]

----------------------------------------------------------------------------
(* estimate_pi *)

EstimatePiGenOneArray(g, n) == UniformGen(g, n)

\* generator after estimate_pi(n): x is drawn, then y
EstimatePiGen(g, n) == UniformGen(UniformGen(g, n), n)

\* the block of generator output estimate_pi(n) consumes from state g
Block(g, n) == [key |-> g.key, pos |-> g.pos, n |-> n]

\* inside_circle = (x**2 + y**2) <= 1
InsideCircle(xs, ys) ==
    [k \in DOMAIN xs |-> xs[k] * xs[k] + ys[k] * ys[k] <= GridDen * GridDen]

PointsInsidePerCoordinate(xs, ys) ==
    Cardinality({k \in DOMAIN xs : xs[k] * xs[k] <= GridDen * GridDen})
    + Cardinality({k \in DOMAIN ys : ys[k] * ys[k] <= GridDen * GridDen})

\* points_inside = np.sum(inside_circle)
PointsInside(xs, ys) ==
    Cardinality({k \in DOMAIN xs : InsideCircle(xs, ys)[k]})

TrueDivideRaising(a, b) ==
    IF b # 0
    THEN [kind |-> "finite", num |-> a, den |-> b, raised |-> FALSE]
    ELSE [kind |-> "none", num |-> 0, den |-> 0, raised |-> TRUE]

\* a / n on numpy scalars under numpy's default error state: division by
\* zero warns and yields nan (0/0) or inf, it does not raise
TrueDivide(a, b) ==
    IF b # 0
    THEN [kind |-> "finite", num |-> a, den |-> b, raised |-> FALSE]
    ELSE IF a = 0
         THEN [kind |-> "nan", num |-> 0, den |-> 0, raised |-> FALSE]
         ELSE [kind |-> "inf", num |-> a, den |-> 0, raised |-> FALSE]

\* the value estimate_pi(n) returns from generator state g
EstimatePi(tp, g, n) ==
    TrueDivide(4 * PointsInside(Uniform(tp, g, n),
                                Uniform(tp, UniformGen(g, n), n)), n)

----------------------------------------------------------------------------
(* np.logspace(2, 6, 50).astype(int): floor(10 ^ (2 + 4k/49)), k = 0..49,  *)
(* that is the largest m with m^49 <= 10^(98 + 4k).  Exact arithmetic on   *)
(* numbers held as little-endian sequences of base-1000 digits.  The        *)
(* recursions split their work in halves, so that they stay shallow.        *)

\* d without its leading (last) zero digits
StripZeros(d) ==
    LET strip[q \in Seq(Nat)] ==
            IF \A i \in DOMAIN q : q[i] = 0 THEN <<>>
            ELSE SubSeq(q, 1, CHOOSE i \in DOMAIN q :
                                  /\ q[i] # 0
                                  /\ \A j \in DOMAIN q : j > i => q[j] = 0)
    IN  strip[d]

\* the arguments of the multiplication below
MulArgs ==
    ({"mul"} \X Seq(Nat) \X Nat \X Nat)
    \cup ({"join"} \X (Seq(Nat) \X Nat) \X Seq(Nat) \X Nat)
    \cup ({"cat"} \X Seq(Nat) \X (Seq(Nat) \X Nat))

\* a * m for m < 2 * 10^6.  <<"mul", part, m, carry>> gives <<the digits of
\* part * m + carry that lie within part, the carry out>>: part is cut in
\* halves, <<"join", left result, right half, m>> multiplies the right half
\* with the carry of the left, <<"cat", left digits, right result>> joins
MulSmall(a, m) ==
    LET mul[p \in MulArgs] ==
            IF p[1] = "mul"
            THEN IF Len(p[2]) = 0 THEN << <<>>, p[4] >>
                 ELSE IF Len(p[2]) = 1
                 THEN << <<(p[2][1] * p[3] + p[4]) % 1000>>,
                         (p[2][1] * p[3] + p[4]) \div 1000 >>
                 ELSE mul[<<"join",
                            mul[<<"mul", SubSeq(p[2], 1, Len(p[2]) \div 2),
                                  p[3], p[4]>>],
                            SubSeq(p[2], Len(p[2]) \div 2 + 1, Len(p[2])),
                            p[3]>>]
            ELSE IF p[1] = "join"
            THEN mul[<<"cat", p[2][1], mul[<<"mul", p[3], p[4], p[2][2]>>]>>]
            ELSE << p[2] \o p[3][1], p[3][2] >>
    IN  StripZeros(mul[<<"mul", a \o <<0, 0, 0>>, m, 0>>][1])

\* m ^ e.  The function takes <<x, m, c>> and returns x * m^c
BigPow(m, e) ==
    LET pw[p \in Seq(Nat) \X Nat \X Nat] ==
            IF p[3] = 0 THEN p[1]
            ELSE IF p[3] = 1 THEN MulSmall(p[1], p[2])
            ELSE pw[<< pw[<<p[1], p[2], p[3] \div 2>>], p[2],
                       p[3] - p[3] \div 2 >>]
    IN  pw[<< <<1>>, m, e >>]

\* a <= b; the function takes <<a, b>>
BigLeq(a, b) ==
    LET leq[p \in Seq(Nat) \X Seq(Nat)] ==
            IF Len(p[1]) # Len(p[2]) THEN Len(p[1]) < Len(p[2])
            ELSE \A i \in DOMAIN p[1] :
                    p[1][i] > p[2][i]
                        => \E j \in DOMAIN p[1] : j > i /\ p[1][j] < p[2][j]
    IN  leq[<<a, b>>]

\* 10 ^ e
TenPow(e) ==
    [i \in 1..(e \div 3 + 1) |-> IF i = e \div 3 + 1 THEN 10 ^ (e % 3) ELSE 0]

\* the largest m in lo..hi with m^d <= T; the function takes <<T, d, lo, hi>>
FloorRoot(T, d, lo, hi) ==
    LET search[p \in Seq(Nat) \X Nat \X Nat \X Nat] ==
            IF p[3] >= p[4] THEN p[3]
            ELSE IF BigLeq(BigPow((p[3] + p[4] + 1) \div 2, p[2]), p[1])
                 THEN search[<<p[1], p[2], (p[3] + p[4] + 1) \div 2, p[4]>>]
                 ELSE search[<<p[1], p[2], p[3], (p[3] + p[4] + 1) \div 2 - 1>>]
    IN  search[<<T, d, lo, hi>>]

\* the exponent of 10 at index k is LogNum(k) / (NumPoints - 1)
LogNum(k) == LogStart * (NumPoints - 1) + k * (LogStop - LogStart)

\* int(10 ** (start + k * (stop - start) / (num - 1))); the root is looked
\* for within the decade of the power, which ends at 10 ** stop at the latest
LogspaceInt(k) ==
    FloorRoot(TenPow(LogNum(k)), NumPoints - 1,
              10 ^ (LogNum(k) \div (NumPoints - 1)),
              IF LogNum(k) \div (NumPoints - 1) < LogStop
              THEN 10 ^ (LogNum(k) \div (NumPoints - 1) + 1)
              ELSE 10 ^ LogStop)

\* np.logspace(2, 6, 50).astype(int)
Logspace == [k \in 1..NumPoints |-> LogspaceInt(k - 1)]

----------------------------------------------------------------------------
(* SpecEst: estimate_pi called on its own.  A pair of calls, each from the  *)
(* generator state the previous operations left, optionally seeding first.  *)

Runs == {1, 2}
SeedSet == {MainSeed, StudySeed}

NoTape == [p \in {} |-> 0]

InitProgIdle ==
    /\ demo = <<>> /\ n_values = <<>> /\ conv_i = 0 /\ pi_estimates = <<>> /\ printed = <<>>
    /\ samp_i = 0 /\ trial_i = 0 /\ trials = <<>> /\ stats = <<>>
    /\ saved = <<>> /\ summary = FALSE

InitEst ==
    /\ gen \in {[key |-> k, pos |-> 0] : k \in EntropyKeys}
    /\ tape = NoTape
    /\ log = <<>>
    /\ justSeeded = FALSE
    /\ pc = "estimator"
    /\ entry = "estimate_pi"
    /\ InitProgIdle

\* np.random.seed(s) by the caller
HSeed(s) ==
    /\ pc = "estimator"
    /\ Len(log) < Cardinality(Runs)
    /\ ~justSeeded
    /\ gen' = Seed(gen, s)
    /\ justSeeded' = TRUE
    /\ UNCHANGED <<tape, log>>
    /\ UNCHANGED progVars

\* estimate_pi(n), the whole call
HCall(n) ==
    /\ pc = "estimator"
    /\ Len(log) < Cardinality(Runs)
    /\ \E f \in [(UniformPositions(gen, n)
                  \cup UniformPositions(UniformGen(gen, n), n))
                 \ DOMAIN tape -> Grid] :
          LET tp == f @@ tape
              xs == Uniform(tp, gen, n)
              ys == Uniform(tp, UniformGen(gen, n), n)
          IN  /\ tape' = tp
              /\ log' = Append(log, [seeded |-> justSeeded,
                                     pre    |-> gen,
                                     n      |-> n,
                                     inside |-> PointsInside(xs, ys),
                                     ret    |-> EstimatePi(tp, gen, n),
                                     post   |-> EstimatePiGen(gen, n)])
    /\ gen' = EstimatePiGen(gen, n)
    /\ justSeeded' = FALSE
    /\ UNCHANGED progVars

NextEst ==
    \/ \E s \in SeedSet : HSeed(s)
    \/ \E n \in 0..MaxN : HCall(n)

SpecEst == InitEst /\ [][NextEst]_vars

----------------------------------------------------------------------------
(* Spec: the script.  The run enters through main (python                   *)
(* monte_carlo_pi.py) or through one of the studies called on its own, with *)
(* the generator in an entropy-seeded state.                                *)

Init ==
    /\ gen \in {[key |-> k, pos |-> 0] : k \in EntropyKeys}
    /\ tape = NoTape
    /\ log = <<>>
    /\ justSeeded = FALSE
    /\ entry \in {"main", "convergence_study", "sampling_distribution_study"}
    /\ pc = CASE entry = "main" -> "main_banner"
              [] entry = "convergence_study" -> "conv_init"
              [] entry = "sampling_distribution_study" -> "samp_init"
    /\ InitProgIdle

(* main *)

\* the banner and the true value of pi
MainBanner ==
    /\ pc = "main_banner"
    /\ pc' = "main_seed"
    /\ UNCHANGED <<entry, demo, n_values, conv_i, pi_estimates, printed, samp_i,
                   trial_i, trials, stats, saved, summary>>
    /\ UNCHANGED estVars

MainSeedStepOmitted ==
    /\ pc = "main_seed"
    /\ pc' = "main_demo"
    /\ UNCHANGED <<entry, demo, n_values, conv_i, pi_estimates, printed, samp_i,
                   trial_i, trials, stats, saved, summary>>
    /\ UNCHANGED estVars

\* np.random.seed(42)
MainSeedStep ==
    /\ pc = "main_seed"
    /\ gen' = Seed(gen, MainSeed)
    /\ pc' = "main_demo"
    /\ UNCHANGED <<entry, demo, n_values, conv_i, pi_estimates, printed, samp_i,
                   trial_i, trials, stats, saved, summary>>
    /\ UNCHANGED <<tape, log, justSeeded>>

\* one iteration of: for n in [100, 1000, 10000, 100000]
MainDemo ==
    /\ pc = "main_demo"
    /\ Len(demo) < Len(DemoSizes)
    /\ demo' = Append(demo, Block(gen, DemoSizes[Len(demo) + 1]))
    /\ gen' = EstimatePiGen(gen, DemoSizes[Len(demo) + 1])
    /\ UNCHANGED <<pc, entry, n_values, conv_i, pi_estimates, printed, samp_i,
                   trial_i, trials, stats, saved, summary>>
    /\ UNCHANGED <<tape, log, justSeeded>>

MainCallsSamplingFirst ==
    /\ pc = "main_demo"
    /\ Len(demo) = Len(DemoSizes)
    /\ pc' = "samp_init"
    /\ UNCHANGED <<entry, demo, n_values, conv_i, pi_estimates, printed, samp_i,
                   trial_i, trials, stats, saved, summary>>
    /\ UNCHANGED estVars

\* the Part 2 header and the call of convergence_study()
MainCallConv ==
    /\ pc = "main_demo"
    /\ Len(demo) = Len(DemoSizes)
    /\ pc' = "conv_init"
    /\ UNCHANGED <<entry, demo, n_values, conv_i, pi_estimates, printed, samp_i,
                   trial_i, trials, stats, saved, summary>>
    /\ UNCHANGED estVars

\* the closing lines of main
MainSummary ==
    /\ pc = "main_summary"
    /\ summary' = TRUE
    /\ pc' = "done"
    /\ UNCHANGED <<entry, demo, n_values, conv_i, pi_estimates, printed, samp_i,
                   trial_i, trials, stats, saved>>
    /\ UNCHANGED estVars

(* convergence_study *)

\* n_values = ...; pi_estimates = []
ConvInit ==
    /\ pc = "conv_init"
    /\ n_values' = Logspace
    /\ conv_i' = 0
    /\ pi_estimates' = <<>>
    /\ printed' = <<>>
    /\ pc' = "conv_seed"
    /\ UNCHANGED <<entry, demo, samp_i, trial_i, trials, stats, saved,
                   summary>>
    /\ UNCHANGED estVars

ConvSeedStepOmitted ==
    /\ pc = "conv_seed"
    /\ pc' = "conv_loop"
    /\ UNCHANGED <<entry, demo, n_values, conv_i, pi_estimates, printed, samp_i,
                   trial_i, trials, stats, saved, summary>>
    /\ UNCHANGED estVars

\* np.random.seed(42)
ConvSeedStep ==
    /\ pc = "conv_seed"
    /\ gen' = Seed(gen, ConvSeed)
    /\ pc' = "conv_loop"
    /\ UNCHANGED <<entry, demo, n_values, conv_i, pi_estimates, printed, samp_i,
                   trial_i, trials, stats, saved, summary>>
    /\ UNCHANGED <<tape, log, justSeeded>>

ConvIterMilestonesOnly ==
    /\ pc = "conv_loop"
    /\ conv_i < Len(n_values)
    /\ conv_i' = conv_i + 1
    /\ IF n_values[conv_i + 1] \in Milestones
       THEN /\ pi_estimates' = Append(pi_estimates,
                                      Block(gen, n_values[conv_i + 1]))
            /\ printed' = Append(printed, n_values[conv_i + 1])
       ELSE UNCHANGED <<pi_estimates, printed>>
    /\ gen' = EstimatePiGen(gen, n_values[conv_i + 1])
    /\ UNCHANGED <<pc, entry, demo, n_values, samp_i, trial_i, trials, stats, saved,
                   summary>>
    /\ UNCHANGED <<tape, log, justSeeded>>

\* one iteration of: for n in n_values
ConvIter ==
    /\ pc = "conv_loop"
    /\ conv_i < Len(n_values)
    /\ conv_i' = conv_i + 1
    /\ pi_estimates' = Append(pi_estimates, Block(gen, n_values[conv_i + 1]))
    /\ gen' = EstimatePiGen(gen, n_values[conv_i + 1])
    /\ printed' = IF n_values[conv_i + 1] \in Milestones
                  THEN Append(printed, n_values[conv_i + 1])
                  ELSE printed
    /\ UNCHANGED <<pc, entry, demo, n_values, samp_i, trial_i, trials, stats, saved,
                   summary>>
    /\ UNCHANGED <<tape, log, justSeeded>>

\* the convergence plot and plt.savefig('pi_convergence.png')
ConvSave ==
    /\ pc = "conv_loop"
    /\ conv_i = Len(n_values)
    /\ saved' = Append(saved, "pi_convergence.png")
    /\ pc' = "conv_show"
    /\ UNCHANGED <<entry, demo, n_values, conv_i, pi_estimates, printed, samp_i,
                   trial_i, trials, stats, summary>>
    /\ UNCHANGED estVars

\* plt.show() and the return
ConvShow ==
    /\ pc = "conv_show"
    /\ pc' = IF entry = "main" THEN "samp_init" ELSE "done"
    /\ UNCHANGED <<entry, demo, n_values, conv_i, pi_estimates, printed, samp_i,
                   trial_i, trials, stats, saved, summary>>
    /\ UNCHANGED estVars

(* sampling_distribution_study *)

\* n_values, R and the figure
SampInit ==
    /\ pc = "samp_init"
    /\ samp_i' = 0
    /\ trial_i' = 0
    /\ trials' = <<>>
    /\ stats' = <<>>
    /\ pc' = "samp_loop"
    /\ UNCHANGED <<entry, demo, n_values, conv_i, pi_estimates, printed, saved,
                   summary>>
    /\ UNCHANGED estVars

SampSeedStepFirstOnly ==
    /\ pc = "samp_loop"
    /\ samp_i < Len(SampSizes)
    /\ samp_i' = samp_i + 1
    /\ gen' = IF samp_i = 0 THEN Seed(gen, StudySeed) ELSE gen
    /\ trial_i' = 0
    /\ trials' = <<>>
    /\ pc' = "samp_trials"
    /\ UNCHANGED <<entry, demo, n_values, conv_i, pi_estimates, printed, stats, saved,
                   summary>>
    /\ UNCHANGED <<tape, log, justSeeded>>

\* the next n of: for i, n in enumerate(n_values); np.random.seed(123)
SampSeedStep ==
    /\ pc = "samp_loop"
    /\ samp_i < Len(SampSizes)
    /\ samp_i' = samp_i + 1
    /\ gen' = Seed(gen, StudySeed)
    /\ trial_i' = 0
    /\ trials' = <<>>
    /\ pc' = "samp_trials"
    /\ UNCHANGED <<entry, demo, n_values, conv_i, pi_estimates, printed, stats, saved,
                   summary>>
    /\ UNCHANGED <<tape, log, justSeeded>>

\* one element of: [estimate_pi(n) for _ in range(R)]
SampTrial ==
    /\ pc = "samp_trials"
    /\ trial_i < R
    /\ trial_i' = trial_i + 1
    /\ trials' = Append(trials, Block(gen, SampSizes[samp_i]))
    /\ gen' = EstimatePiGen(gen, SampSizes[samp_i])
    /\ UNCHANGED <<pc, entry, demo, n_values, conv_i, pi_estimates, printed, samp_i,
                   stats, saved, summary>>
    /\ UNCHANGED <<tape, log, justSeeded>>

SampStatsEarly ==
    /\ pc = "samp_trials"
    /\ trial_i >= R - 1
    /\ stats' = Append(stats, [n |-> SampSizes[samp_i],
                               estimates |-> Len(trials)])
    /\ pc' = "samp_loop"
    /\ UNCHANGED <<entry, demo, n_values, conv_i, pi_estimates, printed, samp_i,
                   trial_i, trials, saved, summary>>
    /\ UNCHANGED estVars

\* the statistics, histogram, Q-Q plot and Shapiro-Wilk test of this n
SampStats ==
    /\ pc = "samp_trials"
    /\ trial_i = R
    /\ stats' = Append(stats, [n |-> SampSizes[samp_i],
                               estimates |-> Len(trials)])
    /\ pc' = "samp_loop"
    /\ UNCHANGED <<entry, demo, n_values, conv_i, pi_estimates, printed, samp_i,
                   trial_i, trials, saved, summary>>
    /\ UNCHANGED estVars

\* plt.savefig('sampling_distributions.png')
SampSave ==
    /\ pc = "samp_loop"
    /\ samp_i = Len(SampSizes)
    /\ saved' = Append(saved, "sampling_distributions.png")
    /\ pc' = "samp_show"
    /\ UNCHANGED <<entry, demo, n_values, conv_i, pi_estimates, printed, samp_i,
                   trial_i, trials, stats, summary>>
    /\ UNCHANGED estVars

\* plt.show() and the return
SampShow ==
    /\ pc = "samp_show"
    /\ pc' = IF entry = "main" THEN "main_summary" ELSE "done"
    /\ UNCHANGED <<entry, demo, n_values, conv_i, pi_estimates, printed, samp_i,
                   trial_i, trials, stats, saved, summary>>
    /\ UNCHANGED estVars

Next ==
    \/ MainBanner
    \/ MainSeedStep
    \/ MainDemo
    \/ MainCallConv
    \/ MainSummary
    \/ ConvInit
    \/ ConvSeedStep
    \/ ConvIter
    \/ ConvSave
    \/ ConvShow
    \/ SampInit
    \/ SampSeedStep
    \/ SampTrial
    \/ SampStats
    \/ SampSave
    \/ SampShow

Spec == Init /\ [][Next]_vars

\* the script is sequential: whatever step is next is taken
FairSpec == Spec /\ WF_vars(Next)

----------------------------------------------------------------------------
(* Properties *)

Range(f) == {f[k] : k \in DOMAIN f}

\* f[1] + ... + f[k]
SumTo(f, k) ==
    LET sum[i \in 0..k] == IF i = 0 THEN 0 ELSE sum[i - 1] + f[i]
    IN  sum[k]

ConvPcs == {"conv_init", "conv_seed", "conv_loop", "conv_show"}
SampPcs == {"samp_init", "samp_loop", "samp_trials", "samp_show"}
BothImages == <<"pi_convergence.png", "sampling_distributions.png">>

(* C1: for every n >= 1 and every outcome of the draws, estimate_pi(n)      *)
(* returns a finite value 4 * points_inside / n with points_inside in 0..n, *)
(* so the value lies in [0, 4].                                             *)
C1_EstimateInRange ==
    \A i \in DOMAIN log :
        log[i].n >= 1 =>
            /\ log[i].ret.kind = "finite"
            /\ ~log[i].ret.raised
            /\ log[i].inside \in 0..log[i].n
            /\ log[i].ret.num = 4 * log[i].inside
            /\ log[i].ret.den = log[i].n
            /\ 0 <= log[i].ret.num
            /\ log[i].ret.num <= 4 * log[i].ret.den

\* two calls with n >= 2, one with every point inside the quarter-circle
\* and one with some points inside and some outside
C1_Witness ==
    /\ Len(log) = 2
    /\ log[1].n >= 2 /\ log[1].ret.num = 4 * log[1].ret.den
    /\ log[2].n >= 2 /\ 0 < log[2].inside /\ log[2].inside < log[2].n

(* C2: two calls of estimate_pi with the same n, each made right after      *)
(* seeding the generator with the same seed, return the same value and      *)
(* leave the generator in the same state.                                   *)
C2_SeededCallsAgree ==
    \A i, j \in DOMAIN log :
        (/\ log[i].seeded /\ log[j].seeded
         /\ log[i].pre.key = log[j].pre.key
         /\ log[i].n = log[j].n)
        => (log[i].ret = log[j].ret /\ log[i].post = log[j].post)

\* the same seed and the same n >= 1 twice, the first call having moved the
\* generator before it was seeded again
C2_Witness ==
    /\ Len(log) = 2
    /\ log[1].seeded /\ log[2].seeded
    /\ log[1].pre.key = log[2].pre.key
    /\ log[1].n = log[2].n /\ log[1].n >= 1
    /\ log[1].ret.kind = "finite"
    /\ 0 < log[1].inside /\ log[1].inside < log[1].n

(* C3: the estimates of each study do not depend on the generator state at  *)
(* entry: the i-th estimate of convergence_study is always computed from    *)
(* stream 42 at position 2 * (n_values[1] + ... + n_values[i-1]), and the   *)
(* j-th trial of every sample size n of sampling_distribution_study from    *)
(* stream 123 at position 2 * n * (j - 1), whatever ran before.             *)
C3_StudiesIgnoreEntryState ==
    /\ \A i \in DOMAIN pi_estimates :
          pi_estimates[i] = [key |-> ConvSeed,
                             pos |-> 2 * SumTo(n_values, i - 1),
                             n   |-> n_values[i]]
    /\ \A j \in DOMAIN trials :
          trials[j] = [key |-> StudySeed,
                       pos |-> 2 * SampSizes[samp_i] * (j - 1),
                       n   |-> SampSizes[samp_i]]

\* both studies ran to the end inside main, after Part 1 had consumed draws
\* and the earlier sample sizes had advanced the generator
C3_Witness ==
    /\ entry = "main"
    /\ Len(demo) = Len(DemoSizes)
    /\ Len(pi_estimates) = NumPoints
    /\ samp_i = Len(SampSizes) /\ Len(trials) = R
    /\ gen.pos # 0

(* C4: when the loop of convergence_study has ended, a milestone line has   *)
(* been printed for each of 100, 1000, 10000, 100000 and 1000000: all five  *)
(* occur among the generated sample sizes.                                  *)
C4_FiveMilestoneLines ==
    (pc = "conv_show") =>
        /\ Milestones \subseteq Range(n_values)
        /\ Len(printed) = Cardinality(Milestones)

(* C5: convergence_study collects one estimate per sample size: inside the  *)
(* loop the number of estimates equals the number of sample sizes taken,    *)
(* the i-th estimate comes from one estimate_pi call on n_values[i] (the    *)
(* generator has moved by exactly the draws of those calls), the sample     *)
(* sizes are non-decreasing, and after the loop there are 50 estimates.     *)
C5_OneEstimatePerSampleSize ==
    /\ Len(pi_estimates) = conv_i
    /\ \A i \in DOMAIN pi_estimates : pi_estimates[i].n = n_values[i]
    /\ pc = "conv_loop" => gen.pos = 2 * SumTo(n_values, conv_i)
    /\ \A i, j \in DOMAIN n_values : i <= j => n_values[i] <= n_values[j]
    /\ pc \in {"conv_seed", "conv_loop", "conv_show"}
          => Len(n_values) = NumPoints
    /\ pc = "conv_show" => Len(pi_estimates) = NumPoints

C5_Witness ==
    /\ pc = "conv_show"
    /\ Len(pi_estimates) = NumPoints
    /\ pi_estimates[NumPoints].n = 10 ^ LogStop

(* C6: for each of the sample sizes 1000, 10000, 100000 the sampling study  *)
(* collects exactly R = 500 estimates, each from estimate_pi on that sample *)
(* size, and computes the statistics and the normality test of a sample     *)
(* size only from all 500.                                                  *)
C6_ExactlyRTrials ==
    /\ Len(trials) = trial_i
    /\ trial_i <= R
    /\ \A j \in DOMAIN trials : trials[j].n = SampSizes[samp_i]
    /\ Len(stats) <= Len(SampSizes)
    /\ \A k \in DOMAIN stats :
          stats[k].n = SampSizes[k] /\ stats[k].estimates = R
    /\ pc = "samp_show" => Len(stats) = Len(SampSizes)

C6_Witness ==
    /\ pc = "samp_show"
    /\ Len(stats) = Len(SampSizes)
    /\ stats[Len(SampSizes)] = [n |-> SampSizes[Len(SampSizes)], estimates |-> R]

(* C7, as claimed: estimate_pi(0) ends in an error and returns no value.    *)
C7_ZeroRaises ==
    \A i \in DOMAIN log : log[i].n = 0 => log[i].ret.raised

(* C7, amended: estimate_pi(0) divides 0 by 0 on numpy scalars, which does  *)
(* not raise: the call returns nan to its caller and consumes no draws.     *)
C7_ZeroReturnsNaN ==
    \A i \in DOMAIN log :
        log[i].n = 0 =>
            /\ ~log[i].ret.raised
            /\ log[i].ret.kind = "nan"
            /\ log[i].inside = 0
            /\ log[i].post = log[i].pre

C7_Witness ==
    \E i \in DOMAIN log : log[i].n = 0 /\ log[i].pre.pos # 0

(* C8, as claimed: estimate_pi leaves the generator as it found it.         *)
C8_GeneratorUnchanged ==
    \A i \in DOMAIN log : log[i].post = log[i].pre

(* C8, amended: estimate_pi(n) changes nothing but the process-wide         *)
(* generator, which it advances by exactly 2n draws in the same stream.     *)
C8_GeneratorAdvancedBy2n ==
    /\ \A i \in DOMAIN log :
          log[i].post = [key |-> log[i].pre.key,
                         pos |-> log[i].pre.pos + 2 * log[i].n]
    /\ (Len(log) > 0 /\ ~justSeeded) => gen = log[Len(log)].post
    /\ \A i \in DOMAIN log : i > 1 /\ ~log[i].seeded
          => log[i].pre = log[i - 1].post

\* a call with n >= 1 made from a generator an earlier call had advanced
C8_Witness ==
    /\ Len(log) = 2
    /\ ~log[2].seeded
    /\ log[1].n >= 1 /\ log[2].n >= 1
    /\ log[2].post.pos = 2 * (log[1].n + log[2].n)

\* main's phases in order (plots and file writes succeeding)
MainOrder ==
    /\ pc \in {"main_banner", "main_seed", "main_demo", "main_summary",
               "done"} \cup ConvPcs \cup SampPcs
    /\ pc \in {"main_banner", "main_seed"} => demo = <<>>
    /\ pc \notin {"main_banner", "main_seed", "main_demo"}
          => /\ Len(demo) = Len(DemoSizes)
             /\ \A k \in DOMAIN demo : demo[k].n = DemoSizes[k]
    /\ pc \in {"main_banner", "main_seed", "main_demo", "conv_init",
               "conv_seed", "conv_loop"}
          => saved = <<>> /\ stats = <<>> /\ trials = <<>>
    /\ pc \in {"conv_show", "samp_init", "samp_loop", "samp_trials"}
          => /\ saved = <<"pi_convergence.png">>
             /\ Len(pi_estimates) = NumPoints
    /\ pc \in {"samp_show", "main_summary", "done"}
          => /\ saved = BothImages
             /\ Len(pi_estimates) = NumPoints
             /\ Len(stats) = Len(SampSizes)
    /\ summary <=> pc = "done"

C10_FirstDemoEqualsFirstConvergence ==
    entry = "main" =>
        /\ Len(pi_estimates) >= 1
              => /\ demo[1] = pi_estimates[1]
                 /\ demo[1] = [key |-> MainSeed, pos |-> 0, n |-> 100]
        /\ \A k \in DOMAIN demo :
              /\ demo[k].pos = 2 * SumTo(DemoSizes, k - 1)
              /\ k >= 2 => demo[k].pos # 0 /\ demo[k] \notin Range(pi_estimates)

C10_Witness ==
    /\ entry = "main"
    /\ Len(demo) = Len(DemoSizes)
    /\ Len(pi_estimates) = NumPoints
    /\ demo[1] = pi_estimates[1]

====
